---------------------------- MODULE Spec2Model ----------------------------
(***************************************************************************)
(* Model of backend-server.js: the Express proxy that forwards a caller's  *)
(* JSON payload to the upstream chat API and relays the parsed reply, plus *)
(* its health endpoint and its start-up credential check.                  *)
(***************************************************************************)
EXTENDS Naturals, Sequences, FiniteSets

(***************************************************************************)
(* JavaScript values.  Every value is a record of the same three fields,   *)
(* so that any two values can be compared: t is the type tag, s the text   *)
(* of a string (or the decimal spelling of a number, or the key of an      *)
(* object member), items the elements of an array or the members of an     *)
(* object, in insertion order.                                             *)
(***************************************************************************)
JSValue(t, s, items) == [t |-> t, s |-> s, items |-> items]
Undef == JSValue("undefined", "", <<>>)
Null == JSValue("null", "", <<>>)
Str(s) == JSValue("string", s, <<>>)
Num(s) == JSValue("number", s, <<>>)
Arr(items) == JSValue("array", "", items)
Pair(k, v) == JSValue("pair", k, <<v>>)
Obj(pairs) == JSValue("object", "", pairs)

\* The outcome of an expression that may throw: a value, or a thrown Error
\* with its message.
Ok(v) == [ok |-> TRUE, v |-> v, message |-> ""]
Throw(msg) == [ok |-> FALSE, v |-> Undef, message |-> msg]

\* JavaScript truthiness, as used by `!x` and `x || y`.
Truthy(v) ==
    CASE v.t \in {"undefined", "null"} -> FALSE
      [] v.t = "string" -> v.s # ""
      [] v.t = "number" -> v.s # "0"
      [] OTHER -> TRUE

\* The message of the TypeError of reading member k of undefined or null.
TypeErrorMessage(t, k) == "Cannot read properties of " \o t \o " (reading '" \o k \o "')"

\* x.k : the member k of an object, undefined when it has none; a TypeError
\* on undefined and null.  Numbers and arrays have no member named k here.
GetProp(v, k) ==
    CASE v.t \in {"undefined", "null"} ->
           Throw(TypeErrorMessage(v.t, k))
      [] v.t = "object" ->
           IF \E i \in 1..Len(v.items) : v.items[i].s = k
           THEN Ok(v.items[CHOOSE i \in 1..Len(v.items) : v.items[i].s = k].items[1])
           ELSE Ok(Undef)
      [] OTHER -> Ok(Undef)

\* x?.k : undefined when x is undefined or null, x.k otherwise.
OptGetProp(v, k) == IF v.t \in {"undefined", "null"} THEN Ok(Undef) ELSE GetProp(v, k)

\* x[0] : the first element of an array (undefined when it is empty), the
\* member "0" of an object; a TypeError on undefined and null.
GetFirst(v) ==
    CASE v.t = "array" -> IF Len(v.items) > 0 THEN Ok(v.items[1]) ELSE Ok(Undef)
      [] OTHER -> GetProp(v, "0")

\* JSON.stringify(v) of a value made of null, strings, numbers, arrays and
\* objects: no whitespace, members in insertion order.  The strings of the
\* model hold no character that needs escaping.
RECURSIVE JSONStringify(_), StringifyFrom(_, _)
StringifyFrom(items, i) ==
    IF i > Len(items) THEN ""
    ELSE (IF i > 1 THEN "," ELSE "") \o JSONStringify(items[i])
         \o StringifyFrom(items, i + 1)
JSONStringify(v) ==
    CASE v.t = "null" -> "null"
      [] v.t = "string" -> "\"" \o v.s \o "\""
      [] v.t = "number" -> v.s
      [] v.t = "array" -> "[" \o StringifyFrom(v.items, 1) \o "]"
      [] v.t = "pair" -> "\"" \o v.s \o "\":" \o JSONStringify(v.items[1])
      [] v.t = "object" -> "{" \o StringifyFrom(v.items, 1) \o "}"

\* The same value spelled with insignificant whitespace, as a caller or the
\* upstream model may write it: a space after every '{', '[', ',' and ':'
\* and before every closing bracket.
RECURSIVE JSONSpaced(_), SpacedFrom(_, _)
SpacedFrom(items, i) ==
    IF i > Len(items) THEN ""
    ELSE (IF i > 1 THEN ", " ELSE " ") \o JSONSpaced(items[i])
         \o SpacedFrom(items, i + 1)
JSONSpaced(v) ==
    CASE v.t = "null" -> "null"
      [] v.t = "string" -> "\"" \o v.s \o "\""
      [] v.t = "number" -> v.s
      [] v.t = "array" -> "[" \o SpacedFrom(v.items, 1) \o " ]"
      [] v.t = "pair" -> "\"" \o v.s \o "\": " \o JSONSpaced(v.items[1])
      [] v.t = "object" -> "{" \o SpacedFrom(v.items, 1) \o " }"

\* String(v), the coercion JSON.parse applies to its argument.
RECURSIVE JSString(_), JoinFrom(_, _)
JoinFrom(items, i) ==
    IF i > Len(items) THEN ""
    ELSE (IF i > 1 THEN "," ELSE "")
         \o (IF items[i].t \in {"undefined", "null"} THEN "" ELSE JSString(items[i]))
         \o JoinFrom(items, i + 1)
JSString(v) ==
    CASE v.t = "undefined" -> "undefined"
      [] v.t = "null" -> "null"
      [] v.t \in {"string", "number"} -> v.s
      [] v.t = "array" -> JoinFrom(v.items, 1)
      [] v.t = "object" -> "[object Object]"

(***************************************************************************)
(* Program constants.                                                      *)
(***************************************************************************)
\* A stand-in for the 52-line instruction text; the handler only copies it.
SYSTEM_PROMPT == "System Prompt: Phish Narrative Intelligence Engine"
ApiUrl == "https://api.anthropic.com/v1/messages"
Model == "claude-sonnet-4-20250514"
MaxTokens == 2000
AnthropicVersion == "2023-06-01"
UpstreamFallback == "Claude API request failed"
InternalFallback == "Internal server error"

\* The messages of the other errors the handler can catch: the SyntaxError
\* of JSON.parse, and node-fetch's FetchError for a body that is not JSON
\* and for a request that failed.
SyntaxErrorMessage == "Unexpected token in JSON at position 0"
InvalidJsonMessage ==
    "invalid json response body at " \o ApiUrl
    \o " reason: Unexpected token < in JSON at position 0"
NetworkErrorMessage == "request to " \o ApiUrl \o " failed, reason: connect ECONNREFUSED"
HealthBody == Obj(<<Pair("status", Str("ok")),
                    Pair("message", Str("Phish Story Backend is running!"))>>)

(***************************************************************************)
(* The JSON values of the model: what a caller may post and what the       *)
(* upstream model may write into its first content block.                  *)
(***************************************************************************)
PayloadObject == Obj(<<Pair("shows", Arr(<<Num("1"), Num("2")>>)),
                       Pair("venue", Str("MSG"))>>)
PayloadArray == Arr(<<Str("1997-11-22")>>)
PayloadNumber == Num("42")
\* A stand-in for the five-section story: the title and one section.
Story == Obj(<<Pair("title", Str("Your Phish Story")),
               Pair("overall_arc", Obj(<<Pair("summary", Str("Steady")),
                                         Pair("confidence", Str("high"))>>))>>)
\* Valid JSON that is not the five-section object.
StoryOffSchema == Arr(<<Num("1")>>)
StoryErrorShaped == Obj(<<Pair("error", Str("no data"))>>)

\* The message an upstream error body carries.
UpstreamMessage == "invalid x-api-key"

\* The strings that can be the error member of a response.
ErrorStrings ==
    {UpstreamFallback, InternalFallback, UpstreamMessage, SyntaxErrorMessage,
     InvalidJsonMessage, NetworkErrorMessage}
    \cup {TypeErrorMessage(t, k) : t \in {"undefined", "null"},
                                   k \in {"error", "message", "content", "0", "text"}}

\* Every JSON value a text of the model spells: the payloads, the stories,
\* and the bodies the server answers with.
JSONUniverse ==
    {PayloadObject, PayloadArray, PayloadNumber, Null,
     Story, StoryOffSchema, StoryErrorShaped, HealthBody,
     Obj(<<Pair("error", Num("42"))>>)}
    \cup {Obj(<<Pair("error", Str(m))>>) : m \in ErrorStrings}

\* The texts that are JSON, each with the value it spells: the compact
\* spelling and the one with whitespace.
Spellings ==
    {[text |-> JSONStringify(v), value |-> v] : v \in JSONUniverse}
    \cup {[text |-> JSONSpaced(v), value |-> v] : v \in JSONUniverse}

\* JSON.parse(text): the value the text spells, or a SyntaxError; every
\* other text of the model is not JSON.
JSONParse(text) ==
    IF \E e \in Spellings : e.text = text
    THEN Ok((CHOOSE e \in Spellings : e.text = text).value)
    ELSE Throw(SyntaxErrorMessage)

(***************************************************************************)
(* Bounds and input universes.                                             *)
(***************************************************************************)
\* The number of POST /api/generate-story requests of a behaviour.
MaxRequests == 2
ReqIds == 1..MaxRequests

\* process.env.ANTHROPIC_API_KEY: absent, empty, or a key.
EnvValues == {Undef, Str(""), Str("sk-ant-A"), Str("sk-ant-B")}

\* The bodies a caller posts with Content-Type: application/json: an object
\* spelled with whitespace, an array, a bare number, and a text that is not
\* JSON.
RawBodies ==
    {JSONSpaced(PayloadObject), JSONStringify(PayloadArray),
     JSONStringify(PayloadNumber), "{\"shows\":"}

\* An upstream body: JSON spelling `value`, or something that is not JSON.
JsonBody(value) == [json |-> TRUE, value |-> value]
NotJsonBody == [json |-> FALSE, value |-> Undef]
TextBlock(text) == Obj(<<Pair("type", Str("text")), Pair("text", text)>>)
Message(blocks) == Obj(<<Pair("id", Str("msg_01")), Pair("content", Arr(blocks))>>)
ErrorReply(error) == Obj(<<Pair("type", Str("error")), Pair("error", error)>>)

\* A story, spelled compactly.
StoryBody == JsonBody(Message(<<TextBlock(Str(JSONStringify(Story)))>>))
\* Two blocks: valid JSON off the schema first, the story second.
TwoBlockBody ==
    JsonBody(Message(<<TextBlock(Str(JSONStringify(StoryOffSchema))),
                       TextBlock(Str(JSONStringify(Story)))>>))
\* A first block whose text is prose.
ProseBody == JsonBody(Message(<<TextBlock(Str("I cannot analyse this history."))>>))
\* A message with no content member (and no error member).
NoContentBody == JsonBody(Obj(<<Pair("id", Str("msg_01"))>>))
\* Error bodies: with a message, and with a message that is a number.
MessageBody ==
    JsonBody(ErrorReply(Obj(<<Pair("type", Str("authentication_error")),
                              Pair("message", Str(UpstreamMessage))>>)))
NumericMessageBody == JsonBody(ErrorReply(Obj(<<Pair("message", Num("42"))>>)))

\* The bodies sent with an error status: an error with a message, with a
\* numeric one, with none and with an empty one; no error member; not JSON;
\* JSON null; a story.
ErrorBodies ==
    { MessageBody, NumericMessageBody,
      JsonBody(ErrorReply(Obj(<<Pair("type", Str("overloaded_error"))>>))),
      JsonBody(ErrorReply(Obj(<<Pair("message", Str(""))>>))),
      NoContentBody, NotJsonBody, JsonBody(Null), StoryBody }

\* The bodies sent with a success status.
SuccessBodies ==
    { StoryBody, TwoBlockBody, ProseBody,
      \* a story spelled with whitespace
      JsonBody(Message(<<TextBlock(Str(JSONSpaced(Story)))>>)),
      \* valid JSON with an error member
      JsonBody(Message(<<TextBlock(Str(JSONStringify(StoryErrorShaped)))>>)),
      \* an empty content sequence, a block with no text
      JsonBody(Message(<<>>)),
      JsonBody(Message(<<Obj(<<Pair("type", Str("tool_use"))>>)>>)),
      \* no content member: a bare object, an error body; not JSON; JSON null
      NoContentBody, MessageBody, NotJsonBody, JsonBody(Null) }

\* The upstream's replies, a status line and a body: 200 with every success
\* body, 401 with every error body, 201 with two blocks, and 300 (a 3xx
\* that fetch hands back as it is, having no Location to follow) with a
\* numeric message and with a body that is not JSON.
Reply(status, body) == [status |-> status, body |-> body]
UpstreamReplies ==
    {Reply(200, b) : b \in SuccessBodies}
    \cup {Reply(401, b) : b \in ErrorBodies}
    \cup {Reply(201, TwoBlockBody), Reply(300, NumericMessageBody),
          Reply(300, NotJsonBody)}

\* The inputs of the two-process specification and of the fair one: an
\* object and a bare number posted; a story, prose, an error message and a
\* body that is not JSON, each under 200 and under 401.
SmallRawBodies == {JSONSpaced(PayloadObject), JSONStringify(PayloadNumber)}
SmallReplies ==
    {Reply(s, b) : s \in {200, 401},
                   b \in {StoryBody, ProseBody, MessageBody, NotJsonBody}}

(***************************************************************************)
(* State.                                                                  *)
(***************************************************************************)
VARIABLES
    env,        \* per process: process.env.ANTHROPIC_API_KEY
    procState,  \* per process: "starting", "exited", "ready" or "listening"
    exitCode,   \* per process: the code given to process.exit, 0 before
    requests,   \* per request received: the process and the posted text
    frames,     \* per request in the handler: its locals (req.body, position)
    calls,      \* per request: the outbound fetch calls made for it
    replies,    \* per request: what the upstream has answered so far
    responses,  \* per request: the responses sent to its caller
    health      \* per process: the response to GET /health sent in the latest step

vars == <<env, procState, exitCode, requests, frames, calls, replies,
          responses, health>>

Procs == DOMAIN env


\* The module constant read from the environment when the file is loaded.
ANTHROPIC_API_KEY(p) == env[p]

Extend(f, r, v) == [x \in DOMAIN f \cup {r} |-> IF x = r THEN v ELSE f[x]]
Remove(f, r) == [x \in DOMAIN f \ {r} |-> f[x]]

(***************************************************************************)
(* The pieces of the route handlers.  A response is the status and the     *)
(* text of the body the caller receives.                                   *)
(***************************************************************************)
\* res.status(status).json(value); res.json(value) leaves the status at 200.
ResJson(status, value) == [status |-> status, body |-> JSONStringify(value)]

\* express.json() with its defaults (strict): the body must parse and be an
\* object or an array; anything else is an error passed to Express.
ExpressJson(raw) ==
    LET parsed == JSONParse(raw)
    IN  IF parsed.ok /\ parsed.v.t \notin {"object", "array"}
        THEN Throw(SyntaxErrorMessage)
        ELSE parsed

\* Express's own answer to a body the middleware refuses: 400 and an HTML
\* page; the route handler is not called.
BadRequest == [status |-> 400, body |-> "<pre>SyntaxError: Unexpected token</pre>"]

\* A fetch call that sends a key written into the source, not the one
\* loaded from the environment.
FetchCallHardcodedKey(p, body) ==
    [url |-> ApiUrl,
     method |-> "POST",
     contentType |-> "application/json",
     xApiKey |-> "sk-ant-A",
     anthropicVersion |-> AnthropicVersion,
     model |-> Model,
     max_tokens |-> MaxTokens,
     system |-> SYSTEM_PROMPT,
     messages |-> <<[role |-> "user", content |-> JSONStringify(body)]>>]

\* A fetch call whose user message is the payload spelled with whitespace
\* (as the handler's log line prints it), not the compact serialization.
FetchCallPretty(p, body) ==
    [url |-> ApiUrl,
     method |-> "POST",
     contentType |-> "application/json",
     xApiKey |-> ANTHROPIC_API_KEY(p).s,
     anthropicVersion |-> AnthropicVersion,
     model |-> Model,
     max_tokens |-> MaxTokens,
     system |-> SYSTEM_PROMPT,
     messages |-> <<[role |-> "user", content |-> JSONSpaced(body)]>>]

\* The fetch call of the handler: its URL, method, headers, and the object
\* that is serialized into its body.
FetchCall(p, body) ==
    [url |-> ApiUrl,
     method |-> "POST",
     contentType |-> "application/json",
     xApiKey |-> ANTHROPIC_API_KEY(p).s,
     anthropicVersion |-> AnthropicVersion,
     model |-> Model,
     max_tokens |-> MaxTokens,
     system |-> SYSTEM_PROMPT,
     messages |-> <<[role |-> "user", content |-> JSONStringify(body)]>>]

\* response.ok
ResponseOk(status) == status \in 200..299

\* response.json(): the decoded body, or node-fetch's FetchError.
ResponseJson(body) ==
    IF body.json THEN Ok(body.value) ELSE Throw(InvalidJsonMessage)

\* A catch block that sends the caught Error object itself, which
\* serializes to an empty object.
CatchResponseErrorObject(message) ==
    ResJson(500, Obj(<<Pair("error", Obj(<<>>))>>))

\* A catch block that forgets to set the status.
CatchResponseNoStatus(message) ==
    ResJson(200, Obj(<<Pair("error",
                            Str(IF message # "" THEN message ELSE InternalFallback))>>))

\* The catch block: 500 and the caught error's message.
CatchResponse(message) ==
    ResJson(500, Obj(<<Pair("error",
                            Str(IF message # "" THEN message ELSE InternalFallback))>>))

\* An error branch without its return: after answering, it falls through
\* to the success path, whose second read of the body throws, and the catch
\* block answers again.
ErrorBranchFallthrough(status, body) ==
    LET errorData == ResponseJson(body)
        error == IF errorData.ok THEN GetProp(errorData.v, "error") ELSE errorData
        message == IF error.ok THEN OptGetProp(error.v, "message") ELSE error
    IN  IF ~message.ok THEN <<CatchResponse(message.message)>>
        ELSE <<ResJson(status,
                       Obj(<<Pair("error", IF Truthy(message.v) THEN message.v
                                           ELSE Str(UpstreamFallback))>>)),
               CatchResponse(InvalidJsonMessage)>>

\* An error branch that answers 500 whatever the upstream status was.
ErrorBranchFixedStatus(status, body) ==
    LET errorData == ResponseJson(body)
        error == IF errorData.ok THEN GetProp(errorData.v, "error") ELSE errorData
        message == IF error.ok THEN OptGetProp(error.v, "message") ELSE error
    IN  IF ~message.ok THEN <<CatchResponse(message.message)>>
        ELSE <<ResJson(500,
                       Obj(<<Pair("error", IF Truthy(message.v) THEN message.v
                                           ELSE Str(UpstreamFallback))>>))>>

\* The branch taken when response.ok is false.
ErrorBranch(status, body) ==
    LET errorData == ResponseJson(body)
        error == IF errorData.ok THEN GetProp(errorData.v, "error") ELSE errorData
        message == IF error.ok THEN OptGetProp(error.v, "message") ELSE error
    IN  IF ~message.ok THEN <<CatchResponse(message.message)>>
        ELSE <<ResJson(status,
                       Obj(<<Pair("error", IF Truthy(message.v) THEN message.v
                                           ELSE Str(UpstreamFallback))>>))>>

\* A success path that reads the last content block, not the first.
SuccessPathLastBlock(body) ==
    LET data == ResponseJson(body)
        content == IF data.ok THEN GetProp(data.v, "content") ELSE data
        block == IF ~content.ok THEN content
                 ELSE IF content.v.t = "array" /\ Len(content.v.items) > 0
                      THEN Ok(content.v.items[Len(content.v.items)])
                      ELSE GetFirst(content.v)
        storyText == IF block.ok THEN GetProp(block.v, "text") ELSE block
        storyJSON == IF storyText.ok THEN JSONParse(JSString(storyText.v)) ELSE storyText
    IN  IF ~storyJSON.ok THEN <<CatchResponse(storyJSON.message)>>
        ELSE <<ResJson(200, storyJSON.v)>>

\* The path taken when response.ok is true.
SuccessPath(body) ==
    LET data == ResponseJson(body)
        content == IF data.ok THEN GetProp(data.v, "content") ELSE data
        block == IF content.ok THEN GetFirst(content.v) ELSE content
        storyText == IF block.ok THEN GetProp(block.v, "text") ELSE block
        storyJSON == IF storyText.ok THEN JSONParse(JSString(storyText.v)) ELSE storyText
    IN  IF ~storyJSON.ok THEN <<CatchResponse(storyJSON.message)>>
        ELSE <<ResJson(200, storyJSON.v)>>

\* A handler whose `response` is a variable shared by all requests: it
\* branches on the status of the latest request that awaits its body.
AfterBodyShared(status, body) ==
    LET waiting == {q \in DOMAIN frames : frames[q].pc = "json"}
        shared == IF waiting = {} THEN status
                  ELSE frames[CHOOSE q \in waiting : \A o \in waiting : q >= o].status
    IN  IF ~ResponseOk(shared) THEN ErrorBranch(shared, body) ELSE SuccessPath(body)

\* What the handler sends once the upstream status and body are known.
AfterBody(status, body) ==
    IF ~ResponseOk(status) THEN ErrorBranch(status, body) ELSE SuccessPath(body)

\* What the handler sends when fetch rejects.
AfterReject == <<CatchResponse(NetworkErrorMessage)>>

\* What the upstream has answered for a request.
NoReply == [stage |-> "none", status |-> 0, body |-> NotJsonBody]
Headers(status) == [stage |-> "headers", status |-> status, body |-> NotJsonBody]
Complete(status, body) == [stage |-> "complete", status |-> status, body |-> body]
Failed == [stage |-> "failed", status |-> 0, body |-> NotJsonBody]

\* No GET /health was answered in the latest step.
NoHealth == [status |-> 0, body |-> ""]

(***************************************************************************)
(* Actions.                                                                *)
(***************************************************************************)
\* A credential check that only catches an absent key, not an empty one.
ValidateEnvAbsentOnly(p) ==
    /\ procState[p] = "starting"
    /\ IF ANTHROPIC_API_KEY(p) = Undef
       THEN /\ procState' = [procState EXCEPT ![p] = "exited"]
            /\ exitCode' = [exitCode EXCEPT ![p] = 1]
       ELSE /\ procState' = [procState EXCEPT ![p] = "ready"]
            /\ UNCHANGED exitCode
    /\ UNCHANGED <<env, requests, frames, calls, replies, responses>>
    /\ health' = [q \in Procs |-> NoHealth]

\* Lines 13-20: the credential check at load time.
ValidateEnv(p) ==
    /\ procState[p] = "starting"
    /\ IF ~Truthy(ANTHROPIC_API_KEY(p))
       THEN /\ procState' = [procState EXCEPT ![p] = "exited"]
            /\ exitCode' = [exitCode EXCEPT ![p] = 1]
       ELSE /\ procState' = [procState EXCEPT ![p] = "ready"]
            /\ UNCHANGED exitCode
    /\ UNCHANGED <<env, requests, frames, calls, replies, responses>>
    /\ health' = [q \in Procs |-> NoHealth]

\* Lines 141-153: app.listen.
Listen(p) ==
    /\ procState[p] = "ready"
    /\ procState' = [procState EXCEPT ![p] = "listening"]
    /\ UNCHANGED <<env, exitCode, requests, frames, calls, replies, responses>>
    /\ health' = [q \in Procs |-> NoHealth]

\* A POST /api/generate-story arrives: the middleware parses the body and,
\* when it accepts it, the handler runs up to its await of fetch.
PostStory(p, raw) ==
    LET r == Cardinality(DOMAIN requests) + 1
        parsed == ExpressJson(raw)
    IN  /\ procState[p] = "listening"
        /\ r \in ReqIds
        /\ requests' = Extend(requests, r, [proc |-> p, raw |-> raw])
        /\ replies' = Extend(replies, r, NoReply)
        /\ IF parsed.ok
           THEN /\ frames' = Extend(frames, r,
                                    [pc |-> "fetch", body |-> parsed.v, status |-> 0])
                /\ calls' = Extend(calls, r, <<FetchCall(p, parsed.v)>>)
                /\ responses' = Extend(responses, r, <<>>)
           ELSE /\ frames' = frames
                /\ calls' = Extend(calls, r, <<>>)
                /\ responses' = Extend(responses, r, <<BadRequest>>)
        /\ UNCHANGED <<env, procState, exitCode>>
        /\ health' = [q \in Procs |-> NoHealth]

\* fetch rejects (a network failure): the catch block answers.
FetchReject(r) ==
    /\ r \in DOMAIN frames
    /\ frames[r].pc = "fetch"
    /\ replies' = [replies EXCEPT ![r] = Failed]
    /\ responses' = [responses EXCEPT ![r] = @ \o AfterReject]
    /\ frames' = Remove(frames, r)
    /\ UNCHANGED <<env, procState, exitCode, requests, calls>>
    /\ health' = [q \in Procs |-> NoHealth]

\* fetch resolves with the upstream's status line; the handler goes on to
\* await response.json().
FetchResolve(r, status) ==
    /\ r \in DOMAIN frames
    /\ frames[r].pc = "fetch"
    /\ replies' = [replies EXCEPT ![r] = Headers(status)]
    /\ frames' = [frames EXCEPT ![r].pc = "json", ![r].status = status]
    /\ UNCHANGED <<env, procState, exitCode, requests, calls, responses>>
    /\ health' = [q \in Procs |-> NoHealth]

\* response.json() settles: the handler runs to its end.
BodyArrives(r, body) ==
    /\ r \in DOMAIN frames
    /\ frames[r].pc = "json"
    /\ replies' = [replies EXCEPT ![r] = Complete(frames[r].status, body)]
    /\ responses' = [responses EXCEPT ![r] = @ \o AfterBody(frames[r].status, body)]
    /\ frames' = Remove(frames, r)
    /\ UNCHANGED <<env, procState, exitCode, requests, calls>>
    /\ health' = [q \in Procs |-> NoHealth]

\* A health check that reports 503 while the process has a request in the
\* handler.
HealthBusy(p) ==
    /\ procState[p] = "listening"
    /\ health' = [q \in Procs |->
                    IF q # p THEN NoHealth
                    ELSE IF \E r \in DOMAIN frames : requests[r].proc = p
                         THEN ResJson(503, Obj(<<Pair("status", Str("busy"))>>))
                         ELSE ResJson(200, HealthBody)]
    /\ UNCHANGED <<env, procState, exitCode, requests, frames, calls, replies, responses>>

\* Lines 136-138: GET /health.
Health(p) ==
    /\ procState[p] = "listening"
    /\ health' = [q \in Procs |-> IF q = p THEN ResJson(200, HealthBody) ELSE NoHealth]
    /\ UNCHANGED <<env, procState, exitCode, requests, frames, calls, replies, responses>>

\* The upstream answers request r: fetch rejects, or resolves with the
\* status line of one of `answers`, and then the body of a reply with that
\* status arrives.
Settle(r, answers) ==
    \/ FetchReject(r)
    \/ \E reply \in answers : FetchResolve(r, reply.status)
Read(r, answers) ==
    \E reply \in answers :
        /\ r \in DOMAIN frames
        /\ reply.status = frames[r].status
        /\ BodyArrives(r, reply.body)

\* The steps of the processes, their callers and the upstream, the callers
\* posting the texts of `raws` and the upstream answering with `answers`.
NextOver(raws, answers) ==
    \/ \E p \in Procs : ValidateEnv(p)
    \/ \E p \in Procs : Listen(p)
    \/ \E p \in Procs, raw \in raws : PostStory(p, raw)
    \/ \E r \in ReqIds : Settle(r, answers)
    \/ \E r \in ReqIds : Read(r, answers)
    \/ \E p \in Procs : Health(p)

Next == NextOver(RawBodies, UpstreamReplies)
SmallNext == NextOver(SmallRawBodies, SmallReplies)

InitFor(procs, environments) ==
    /\ env \in environments
    /\ procState = [p \in procs |-> "starting"]
    /\ exitCode = [p \in procs |-> 0]
    /\ requests = <<>>
    /\ frames = <<>>
    /\ calls = <<>>
    /\ replies = <<>>
    /\ responses = <<>>
    /\ health = [p \in procs |-> NoHealth]

\* One process, started with no key, an empty key, or a key.
Init == InitFor({"p1"}, [{"p1"} -> EnvValues \ {Str("sk-ant-B")}])

Spec == Init /\ [][Next]_vars

\* Two processes whose environments differ in the key, and in nothing else.
InitPair ==
    InitFor({"p1", "p2"},
            {e \in [{"p1", "p2"} -> EnvValues] :
                /\ e["p1"] = Str("sk-ant-A")
                /\ e["p2"] = Str("sk-ant-B")})

PairSpec == InitPair /\ [][SmallNext]_vars


(***************************************************************************)
(* Properties.                                                             *)
(***************************************************************************)
\* The member k of a JSON object, undefined when v is no object or has none.
Member(v, k) ==
    IF v.t = "object" /\ \E i \in 1..Len(v.items) : v.items[i].s = k
    THEN v.items[CHOOSE i \in 1..Len(v.items) : v.items[i].s = k].items[1]
    ELSE Undef

\* The posted text is JSON, and an object or an array.
Accepted(r) ==
    /\ JSONParse(requests[r].raw).ok
    /\ JSONParse(requests[r].raw).v.t \in {"object", "array"}

\* The upstream answered request r in full, with a status outside 200..299.
UpstreamRefused(r) ==
    /\ replies[r].stage = "complete"
    /\ replies[r].status \notin 200..299

\* The upstream answered request r in full, with a status in 200..299.
UpstreamSucceeded(r) ==
    /\ replies[r].stage = "complete"
    /\ replies[r].status \in 200..299

\* The text is the body {error: m}.
IsErrorBody(text, m) == text = JSONStringify(Obj(<<Pair("error", m)>>))

\* The text is a body {error: m} with m a non-empty string.
IsErrorStringBody(text) ==
    LET d == JSONParse(text)
    IN  /\ d.ok
        /\ d.v.t = "object"
        /\ Len(d.v.items) = 1
        /\ d.v.items[1].s = "error"
        /\ d.v.items[1].items[1].t = "string"
        /\ d.v.items[1].items[1].s # ""

\* C1: a process started with an absent or empty ANTHROPIC_API_KEY never
\* gets past the credential check except by exiting with code 1: it never
\* listens and never serves a POST or a GET /health; a process that listens,
\* or that has served anything, has a non-empty key.
C1_StartupOrdering ==
    \A p \in Procs :
        /\ env[p] \in {Undef, Str("")} =>
              /\ procState[p] \in {"starting", "exited"}
              /\ procState[p] = "exited" <=> exitCode[p] = 1
              /\ \A r \in DOMAIN requests : requests[r].proc # p
              /\ health[p] = NoHealth
        /\ (\/ procState[p] \in {"ready", "listening"}
            \/ \E r \in DOMAIN requests : requests[r].proc = p
            \/ health[p] # NoHealth) =>
              /\ env[p].t = "string"
              /\ env[p].s # ""
              /\ exitCode[p] = 0

\* C1 witness: a process started with an empty key has exited with code 1.
C1_Witness ==
    \E p \in Procs : env[p] = Str("") /\ procState[p] = "exited" /\ exitCode[p] = 1

C3_Extracted(body) ==
    LET m == Member(Member(body.value, "error"), "message")
    IN  IF body.json /\ m \notin {Undef, Str("")} THEN m ELSE Str(UpstreamFallback)

\* C3 as stated: whenever the upstream answers with a status s outside
\* 200..299, whatever its body, the response has status s and body
\* {error: m}, m the message of the upstream body or the fallback.
C3_AnyErrorBody ==
    \A r \in DOMAIN requests :
        UpstreamRefused(r) =>
            /\ Len(responses[r]) = 1
            /\ responses[r][1].status = replies[r].status
            /\ IsErrorBody(responses[r][1].body, C3_Extracted(replies[r].body))

\* C3 amended: whenever the upstream answers with a status s outside
\* 200..299 and a body that is JSON and not null, the response has status s
\* and body {error: m}, where m is the body's error.message when that is
\* truthy (relayed as it is, string or not) and 'Claude API request failed'
\* otherwise (no error member, no message, an empty message); when the body
\* is not JSON or is null, the response is 500 with body {error: m}, m the
\* non-empty message of the caught error.
C3_ErrorPropagation ==
    \A r \in DOMAIN requests :
        UpstreamRefused(r) =>
            /\ Len(responses[r]) = 1
            /\ IF replies[r].body.json /\ replies[r].body.value # Null
               THEN LET m == Member(Member(replies[r].body.value, "error"), "message")
                    IN  /\ responses[r][1].status = replies[r].status
                        /\ IsErrorBody(responses[r][1].body,
                                       IF m \notin {Undef, Null, Str(""), Num("0")}
                                       THEN m ELSE Str(UpstreamFallback))
               ELSE /\ responses[r][1].status = 500
                    /\ IsErrorStringBody(responses[r][1].body)

\* C3 witness: an upstream 401 carrying a message was relayed as 401 with
\* that message.
C3_Witness ==
    \E r \in DOMAIN requests :
        /\ UpstreamRefused(r)
        /\ replies[r].status = 401
        /\ Member(Member(replies[r].body.value, "error"), "message") = Str(UpstreamMessage)
        /\ responses[r] = <<[status |-> 401,
                             body |-> "{\"error\":\"invalid x-api-key\"}"]>>


\* The text member of the first content block of an upstream body, undefined
\* when the body is not JSON, has no content sequence, an empty one, or a
\* first block with no text.
FirstText(body) ==
    LET content == Member(body.value, "content")
    IN  IF body.json /\ content.t = "array" /\ Len(content.items) > 0
        THEN Member(content.items[1], "text")
        ELSE Undef

\* The first content block carries a text that is valid JSON.
HasValidStory(body) ==
    /\ FirstText(body).t = "string"
    /\ JSONParse(FirstText(body).s).ok

Malformed(body) ==
    \/ ~body.json
    \/ Member(body.value, "content") = Undef
    \/ Member(body.value, "content") = Arr(<<>>)
    \/ FirstText(body) = Undef
    \/ FirstText(body).t = "string" /\ ~JSONParse(FirstText(body).s).ok

\* C5: whenever the upstream answers with a status in 200..299 and a
\* malformed body, the request has one response, with status 500 and body
\* {error: m}, m a non-empty string, and still exactly one outbound call.
C5_MalformedIs500 ==
    \A r \in DOMAIN requests :
        UpstreamSucceeded(r) /\ Malformed(replies[r].body) =>
            /\ Len(responses[r]) = 1
            /\ responses[r][1].status = 500
            /\ IsErrorStringBody(responses[r][1].body)
            /\ Len(calls[r]) = 1

\* C5 witness: an upstream 200 whose first block holds prose was answered
\* 500 with the SyntaxError's message.
C5_Witness ==
    \E r \in DOMAIN requests :
        /\ UpstreamSucceeded(r)
        /\ FirstText(replies[r].body) = Str("I cannot analyse this history.")
        /\ responses[r] = <<ResJson(500, Obj(<<Pair("error", Str(SyntaxErrorMessage))>>))>>
        /\ Len(calls[r]) = 1

Settled(r) == replies[r].stage \in {"complete", "failed"}

\* C7: a listening process can always answer GET /health, and every answer
\* is status 200 with body {status: 'ok', message: <the constant>}, sent by
\* a listening process in a step that changes nothing else: no outbound
\* call, no request state, no process state.
C7_HealthAlwaysOk ==
    /\ [](\A p \in Procs : procState[p] = "listening" => ENABLED Health(p))
    /\ [][\A p \in Procs :
             health'[p] # NoHealth =>
                 /\ procState[p] = "listening"
                 /\ health'[p].status = 200
                 /\ JSONParse(health'[p].body) = Ok(HealthBody)
                 /\ UNCHANGED <<env, procState, exitCode, requests, frames,
                                calls, replies, responses>>]_vars

\* C7 witness: GET /health was answered 200 while one request was in the
\* handler and another had been answered 500 after a failed fetch.
C7_Witness ==
    \E p \in Procs :
        /\ health[p] = ResJson(200, HealthBody)
        /\ \E r \in DOMAIN frames : requests[r].proc = p
        /\ \E r \in DOMAIN requests :
              /\ requests[r].proc = p
              /\ replies[r].stage = "failed"
              /\ responses[r] # <<>>
              /\ responses[r][1].status = 500

\* What the handler sends for request r given only r's own upstream reply.
OwnResponse(r) ==
    IF replies[r].stage = "failed" THEN AfterReject
    ELSE AfterBody(replies[r].status, replies[r].body)

\* C8: in every state, whatever other requests are in flight or finished:
\* a request in the handler holds its own parsed body and nothing is kept
\* of a request once it has its response; the outbound call of a request is
\* the call built from its own body, and its response is what the handler
\* computes from its own upstream reply; two requests of a process with the
\* same body have the same call and, given the same reply, the same
\* response.  And every step touches the call, the frame and the response
\* of at most one request.
C8_RequestIndependence ==
    /\ [](/\ DOMAIN frames \subseteq DOMAIN requests
          /\ \A r \in DOMAIN requests :
                /\ r \in DOMAIN frames =>
                      /\ Accepted(r)
                      /\ frames[r].body = JSONParse(requests[r].raw).v
                      /\ responses[r] = <<>>
                /\ responses[r] # <<>> => r \notin DOMAIN frames
                /\ Accepted(r) =>
                      calls[r] = <<FetchCall(requests[r].proc,
                                             JSONParse(requests[r].raw).v)>>
                /\ Accepted(r) /\ Settled(r) => responses[r] = OwnResponse(r)
          /\ \A r1, r2 \in DOMAIN requests :
                /\ Accepted(r1) /\ Accepted(r2)
                /\ requests[r1].proc = requests[r2].proc
                /\ JSONParse(requests[r1].raw) = JSONParse(requests[r2].raw)
                => /\ calls[r1] = calls[r2]
                   /\ Settled(r1) /\ replies[r1] = replies[r2]
                      => responses[r1] = responses[r2])
    /\ [][\A r \in DOMAIN requests : \A q \in DOMAIN requests \ {r} :
             (\/ calls'[r] # calls[r]
              \/ responses'[r] # responses[r]
              \/ (r \in DOMAIN frames) # (r \in DOMAIN frames')
              \/ r \in DOMAIN frames /\ r \in DOMAIN frames' /\ frames'[r] # frames[r])
             => /\ calls'[q] = calls[q]
                /\ responses'[q] = responses[q]
                /\ (q \in DOMAIN frames) = (q \in DOMAIN frames')
                /\ q \in DOMAIN frames => frames'[q] = frames[q]]_vars

\* C8 witness: two requests with the same body got the same upstream reply
\* and the same 200 response, and nothing of either is left in the handler.
C8_Witness ==
    /\ frames = <<>>
    /\ DOMAIN requests = {1, 2}
    /\ requests[1].raw = JSONSpaced(PayloadObject)
    /\ requests[2].raw = requests[1].raw
    /\ UpstreamSucceeded(1)
    /\ replies[1] = replies[2]
    /\ responses[1] = <<ResJson(200, Story)>>
    /\ responses[2] = responses[1]
    /\ calls[1] = calls[2]

FairSpec ==
    /\ Init
    /\ [][SmallNext]_vars
    /\ \A r \in ReqIds :
          /\ WF_vars(Settle(r, SmallReplies))
          /\ WF_vars(Read(r, SmallReplies))

\* C10: a request that reached the handler has no response while its
\* outbound call is unsettled and exactly one once it has settled, the
\* response to a rejected call being 500 with body {error: m}; and every
\* request in the handler is eventually out of it with its one response.
C10_ExactlyOneResponse ==
    /\ [](\A r \in DOMAIN requests :
             Accepted(r) =>
                 /\ Len(responses[r]) = (IF Settled(r) THEN 1 ELSE 0)
                 /\ Settled(r) <=> r \notin DOMAIN frames
                 /\ replies[r].stage = "failed" =>
                       /\ responses[r][1].status = 500
                       /\ IsErrorStringBody(responses[r][1].body))
    /\ \A r \in ReqIds :
          (r \in DOMAIN frames)
             ~> (/\ r \in DOMAIN requests
                 /\ r \notin DOMAIN frames
                 /\ Settled(r)
                 /\ Len(responses[r]) = 1)

\* C10 witness: a request whose fetch was rejected has its one response,
\* 500 with the FetchError's message.
C10_Witness ==
    \E r \in DOMAIN requests :
        /\ replies[r].stage = "failed"
        /\ responses[r] = <<ResJson(500, Obj(<<Pair("error", Str(NetworkErrorMessage))>>))>>

=============================================================================
